---- MODULE Spec2Model ----
(***************************************************************************)
(* Home maintenance tracker: the Express routes of server/routes.ts over   *)
(* the Drizzle storage of server/storage.ts and the tables of              *)
(* shared/schema.ts.  A request handler is one action; a request body is a *)
(* partial record (a function from the keys it carries to their values).   *)
(***************************************************************************)
EXTENDS Integers, FiniteSets, Sequences, TLC

\* ---------------------------------------------------------------- bounds
MaxDevices == 2
MaxConsumables == 1
MaxTasks == 1
MaxNow == 1
MaxInflight == 2
MaxDay == 35

\* ------------------------------------------------------------- constants
\* SQL NULL / JS null in an integer or timestamp column.
Null == -1
\* SQL NULL in a text column.
NullText == "NULL"
\* The principal of a request that carries no authenticated session.
Anonymous == 0

Users == {1, 2}
Principals == Users \cup {Anonymous}
Usernames == {"ann", "bob", "cat"}

DeviceIds == 1..MaxDevices
ConsumableIds == 1..MaxConsumables
TaskIds == 1..MaxTasks
\* Requests the server has accepted and not yet answered.
Slots == 1..MaxInflight

VARIABLES
    users,           \* users table: id -> username
    devices,         \* devices table: id -> row
    consumables,     \* consumables table: id -> row
    tasks,           \* maintenance_tasks table: id -> row
    nextDeviceId,    \* serial of devices.id
    nextConsumableId,\* serial of consumables.id
    nextTaskId,      \* serial of maintenance_tasks.id
    now,             \* the clock read by new Date()
    res,             \* the latest request (op, user, :id) and its status
    inflight,        \* slot -> the request suspended at an await, or Idle
    page             \* the task lists the client shows, as last rendered

store == <<users, devices, consumables, tasks>>
serials == <<nextDeviceId, nextConsumableId, nextTaskId>>
vars == <<users, devices, consumables, tasks,
          nextDeviceId, nextConsumableId, nextTaskId, now, res,
          inflight, page>>

\* ------------------------------------------------------ records and rows
\* The empty table.
NoRows == [id \in {} |-> Null]

\* JS object spread {...a, ...b}: every key of either, b's value winning.
Spread(a, b) ==
    [k \in DOMAIN a \cup DOMAIN b |-> IF k \in DOMAIN b THEN b[k] ELSE a[k]]

\* Drizzle .values(v): each column takes v's value, or its default.
\* Drizzle .set(v): each column v carries is overwritten, the others kept;
\* keys of v that are no column of the table are dropped.
SetColumns(row, v) ==
    [k \in DOMAIN row |-> IF k \in DOMAIN v THEN v[k] ELSE row[k]]

\* JS truthiness of a (string | null | undefined) body field.
Truthy(body, k) == k \in DOMAIN body /\ body[k] # Null

\* DELETE FROM t WHERE ...: the rows of t but those the condition selects.
DeleteWhere(t, selected) == [id \in DOMAIN t \ selected |-> t[id]]

InsertRow(t, id, row) == [i \in DOMAIN t \cup {id} |-> IF i = id THEN row ELSE t[i]]

\* Column defaults of the three tables.
DeviceDefaults ==
    [userId |-> Null, name |-> NullText,
     purchaseDate |-> Null, warrantyExpirationDate |-> Null]
ConsumableDefaults == [deviceId |-> Null, name |-> NullText]
TaskDefaults ==
    [deviceId |-> Null, intervalDays |-> Null, lastCompleted |-> Null,
     isCompleted |-> FALSE, completedBy |-> Null,
     completedByUsername |-> NullText]

\* ------------------------------------------------------------ responses
\* The last response sent: the route, the session user, the path :id, the
\* status and, for GET /api/tasks, the ids of the tasks in the JSON array.
NoResponse ==
    [op |-> "none", user |-> Anonymous, id |-> 0, status |-> 0, list |-> <<>>]
RespondList(op, u, id, status, list) ==
    res' = [op |-> op, user |-> u, id |-> id, status |-> status, list |-> list]
Respond(op, u, id, status) == RespondList(op, u, id, status, <<>>)

\* The client before its first render: the dashboard's two lists and the
\* tasks the devices page marks overdue.
NoPage == [dueTasks |-> {}, upcomingTasks |-> {}, isOverdue |-> {}]

\* A request between two awaits of its handler: the route, the session user
\* and username, the path :id, the await it is suspended at, and the locals
\* of the handler (dev: the deviceId it read; ts: the Date of its query;
\* todo / acc: the devices left to read and the tasks read so far).
\* removed counts the rows its DELETE statements have removed.
Idle ==
    [op |-> "none", user |-> Anonymous, name |-> NullText, id |-> 0,
     pc |-> "idle", dev |-> 0, ts |-> 0, removed |-> 0,
     todo |-> <<>>, acc |-> <<>>]

\* --------------------------------------------------------------- storage
getTaskJoinUsers(id) ==
    [tasks[id] EXCEPT !.completedByUsername =
        IF tasks[id].completedBy \in Users
        THEN users[tasks[id].completedBy] ELSE NullText]

\* storage.getTask: the stored row, as it is (no join on read).
getTask(id) == tasks[id]
getDevices(userId) == {id \in DOMAIN devices : devices[id].userId = userId}
getConsumables(deviceId) ==
    {id \in DOMAIN consumables : consumables[id].deviceId = deviceId}
getTasks(deviceId) == {id \in DOMAIN tasks : tasks[id].deviceId = deviceId}

\* storage.createDevice / updateDevice: the two dates are always written,
\* as a Date when the body carries a truthy value and as null otherwise.
deviceData(device) ==
    Spread(device,
           [purchaseDate |->
                IF Truthy(device, "purchaseDate")
                THEN device.purchaseDate ELSE Null,
            warrantyExpirationDate |->
                IF Truthy(device, "warrantyExpirationDate")
                THEN device.warrantyExpirationDate ELSE Null])

createDeviceRow(device) == SetColumns(DeviceDefaults, deviceData(device))
updateDeviceRow(row, device) == SetColumns(row, deviceData(device))

\* storage.deleteDevice: consumables, then tasks, then the device.
deleteDeviceConsumables(id) ==
    DeleteWhere(consumables,
                {c \in DOMAIN consumables : consumables[c].deviceId = id})
deleteDeviceTasksSkipped(id) == tasks
deleteDeviceTasks(id) ==
    DeleteWhere(tasks, {t \in DOMAIN tasks : tasks[t].deviceId = id})
deleteDeviceRow(id) == DeleteWhere(devices, {id})

createConsumableRow(consumable) == SetColumns(ConsumableDefaults, consumable)
updateConsumableRow(row, consumable) == SetColumns(row, consumable)

createTaskRow(task) == SetColumns(TaskDefaults, task)
updateTaskRow(row, task) == SetColumns(row, task)
completeTaskRow(row, userId, username) ==
    SetColumns(row, [lastCompleted |-> now, isCompleted |-> TRUE,
                     completedBy |-> userId,
                     completedByUsername |-> username])

\* storage.completeTask as the database applies it: the UPDATE carries the
\* Date that new Date() gave when the query was built.
completeTaskKeepFirst(row, ts, userId, username) ==
    SetColumns(row, [lastCompleted |->
                         IF row.lastCompleted = Null
                         THEN ts ELSE row.lastCompleted,
                     isCompleted |-> TRUE,
                     completedBy |-> userId,
                     completedByUsername |-> username])
completeTaskAt(row, ts, userId, username) ==
    SetColumns(row, [lastCompleted |-> ts, isCompleted |-> TRUE,
                     completedBy |-> userId,
                     completedByUsername |-> username])

\* The ids of a SELECT without ORDER BY, in ascending order.
RECURSIVE Rows(_)
Rows(ids) ==
    IF ids = {} THEN <<>>
    ELSE LET least == CHOOSE i \in ids : \A j \in ids : i <= j
         IN  <<least>> \o Rows(ids \ {least})

\* ---------------------------------------------------------------- routes
isAuthenticatedAlways(u) == TRUE
isAuthenticated(u) == u # Anonymous

NotOwnedExistsOnly(u, deviceId) == deviceId \notin DOMAIN devices
NotOwnedIfPresent(u, deviceId) ==
    deviceId \in DOMAIN devices /\ devices[deviceId].userId # u

\* `!device || device.userId !== req.user!.id`
NotOwned(u, deviceId) ==
    deviceId \notin DOMAIN devices \/ devices[deviceId].userId # u

\* req.user.username: the session user, loaded from the users table.
SessionUsername(u) == users[u]

\* ---------------------------------------------------------- request bodies
\* JSON bodies a client can send.  A timestamp column only accepts a Date,
\* which JSON cannot carry, so lastCompleted can be sent as null only;
\* completedBy references users.id.
DeviceCreateBodies == {[name |-> "a"]} \cup {[name |-> "a", userId |-> v] : v \in Users}
DeviceUpdateBodies == {[name |-> "b"]} \cup {[userId |-> v] : v \in Users}
ConsumableCreateBodies ==
    {[name |-> "a"]} \cup {[name |-> "a", deviceId |-> d] : d \in DeviceIds}
ConsumableUpdateBodies == {[name |-> "b"]} \cup {[deviceId |-> d] : d \in DeviceIds}
IntervalValues == {0, 1}
TaskCreateBodies ==
    {[intervalDays |-> i] : i \in IntervalValues}
    \cup {[intervalDays |-> 1, deviceId |-> d] : d \in DeviceIds}
TaskUpdateBodies ==
    {[intervalDays |-> i] : i \in IntervalValues}
    \cup {[deviceId |-> d] : d \in DeviceIds}
\* Bodies that also carry the completion columns.
TaskCreateBodiesFull ==
    {[intervalDays |-> i] : i \in IntervalValues}
    \cup {[intervalDays |-> 1, isCompleted |-> TRUE],
          [intervalDays |-> 1, completedByUsername |-> "cat"]}
    \cup {[intervalDays |-> 1, completedBy |-> v] : v \in Users}
TaskUpdateBodiesFull ==
    {[intervalDays |-> i] : i \in IntervalValues}
    \cup {[isCompleted |-> b] : b \in BOOLEAN}
    \cup {[lastCompleted |-> Null], [completedByUsername |-> "cat"]}
    \cup {[completedBy |-> v] : v \in Users \cup {Null}}

\* ---------------------------------------------------------------- routes
\* A response that ends the handler before any write.
Deny(op, u, id, status) ==
    /\ Respond(op, u, id, status)
    /\ UNCHANGED <<store, serials, now, inflight, page>>

CreateDeviceBodyWins(u, body) ==
    IF ~isAuthenticated(u) THEN Deny("createDevice", u, 0, 401)
    ELSE /\ nextDeviceId <= MaxDevices
         /\ devices' = InsertRow(devices, nextDeviceId,
                                 createDeviceRow(Spread([userId |-> u], body)))
         /\ nextDeviceId' = nextDeviceId + 1
         /\ Respond("createDevice", u, 0, 201)
         /\ UNCHANGED <<users, consumables, tasks,
                        nextConsumableId, nextTaskId, now, inflight, page>>

\* POST /api/devices
CreateDevice(u, body) ==
    IF ~isAuthenticated(u) THEN Deny("createDevice", u, 0, 401)
    ELSE /\ nextDeviceId <= MaxDevices
         /\ devices' = InsertRow(devices, nextDeviceId,
                                 createDeviceRow(Spread(body, [userId |-> u])))
         /\ nextDeviceId' = nextDeviceId + 1
         /\ Respond("createDevice", u, 0, 201)
         /\ UNCHANGED <<users, consumables, tasks,
                        nextConsumableId, nextTaskId, now, inflight, page>>

\* PUT /api/devices/:id
UpdateDevice(u, id, body) ==
    IF ~isAuthenticated(u) THEN Deny("updateDevice", u, id, 401)
    ELSE IF NotOwned(u, id) THEN Deny("updateDevice", u, id, 404)
    ELSE /\ devices' = [devices EXCEPT ![id] = updateDeviceRow(@, body)]
         /\ Respond("updateDevice", u, id, 200)
         /\ UNCHANGED <<users, consumables, tasks, serials, now, inflight, page>>

\* DELETE /api/devices/:id
DeleteDevice(u, id) ==
    IF ~isAuthenticated(u) THEN Deny("deleteDevice", u, id, 401)
    ELSE IF NotOwned(u, id) THEN Deny("deleteDevice", u, id, 404)
    ELSE /\ consumables' = deleteDeviceConsumables(id)
         /\ tasks' = deleteDeviceTasks(id)
         /\ devices' = deleteDeviceRow(id)
         /\ Respond("deleteDevice", u, id, 204)
         /\ UNCHANGED <<users, serials, now, inflight, page>>

\* POST /api/devices/:id/consumables
CreateConsumable(u, id, body) ==
    IF ~isAuthenticated(u) THEN Deny("createConsumable", u, id, 401)
    ELSE IF NotOwned(u, id) THEN Deny("createConsumable", u, id, 404)
    ELSE /\ nextConsumableId <= MaxConsumables
         /\ consumables' =
                InsertRow(consumables, nextConsumableId,
                          createConsumableRow(Spread(body, [deviceId |-> id])))
         /\ nextConsumableId' = nextConsumableId + 1
         /\ Respond("createConsumable", u, id, 201)
         /\ UNCHANGED <<users, devices, tasks, nextDeviceId, nextTaskId, now, inflight, page>>

\* PUT /api/consumables/:id
UpdateConsumable(u, id, body) ==
    IF ~isAuthenticated(u) THEN Deny("updateConsumable", u, id, 401)
    ELSE IF id \notin DOMAIN consumables
    THEN Deny("updateConsumable", u, id, 404)
    ELSE IF NotOwned(u, consumables[id].deviceId)
    THEN Deny("updateConsumable", u, id, 403)
    ELSE /\ consumables' =
                [consumables EXCEPT ![id] = updateConsumableRow(@, body)]
         /\ Respond("updateConsumable", u, id, 200)
         /\ UNCHANGED <<users, devices, tasks, serials, now, inflight, page>>

\* DELETE /api/consumables/:id
DeleteConsumable(u, id) ==
    IF ~isAuthenticated(u) THEN Deny("deleteConsumable", u, id, 401)
    ELSE IF id \notin DOMAIN consumables
    THEN Deny("deleteConsumable", u, id, 404)
    ELSE IF NotOwned(u, consumables[id].deviceId)
    THEN Deny("deleteConsumable", u, id, 403)
    ELSE /\ consumables' = DeleteWhere(consumables, {id})
         /\ Respond("deleteConsumable", u, id, 204)
         /\ UNCHANGED <<users, devices, tasks, serials, now, inflight, page>>

\* POST /api/devices/:id/tasks
CreateTask(u, id, body) ==
    IF ~isAuthenticated(u) THEN Deny("createTask", u, id, 401)
    ELSE IF NotOwned(u, id) THEN Deny("createTask", u, id, 404)
    ELSE /\ nextTaskId <= MaxTasks
         /\ tasks' =
                InsertRow(tasks, nextTaskId,
                          createTaskRow(Spread(body,
                              [deviceId |-> id, lastCompleted |-> Null,
                               isCompleted |-> FALSE])))
         /\ nextTaskId' = nextTaskId + 1
         /\ Respond("createTask", u, id, 201)
         /\ UNCHANGED <<users, devices, consumables,
                        nextDeviceId, nextConsumableId, now, inflight, page>>

UpdateTaskForbidden(u, id, body) ==
    IF ~isAuthenticated(u) THEN Deny("updateTask", u, id, 401)
    ELSE IF id \notin DOMAIN tasks THEN Deny("updateTask", u, id, 404)
    ELSE IF NotOwned(u, getTask(id).deviceId) THEN Deny("updateTask", u, id, 403)
    ELSE /\ tasks' = [tasks EXCEPT ![id] = updateTaskRow(@, body)]
         /\ Respond("updateTask", u, id, 200)
         /\ UNCHANGED <<users, devices, consumables, serials, now, inflight, page>>

\* PUT /api/tasks/:id
UpdateTask(u, id, body) ==
    IF ~isAuthenticated(u) THEN Deny("updateTask", u, id, 401)
    ELSE IF id \notin DOMAIN tasks THEN Deny("updateTask", u, id, 404)
    ELSE IF NotOwned(u, getTask(id).deviceId) THEN Deny("updateTask", u, id, 404)
    ELSE /\ tasks' = [tasks EXCEPT ![id] = updateTaskRow(@, body)]
         /\ Respond("updateTask", u, id, 200)
         /\ UNCHANGED <<users, devices, consumables, serials, now, inflight, page>>

\* POST /api/tasks/:id/complete
CompleteTask(u, id) ==
    IF ~isAuthenticated(u) THEN Deny("completeTask", u, id, 401)
    ELSE IF id \notin DOMAIN tasks THEN Deny("completeTask", u, id, 404)
    ELSE IF NotOwned(u, getTask(id).deviceId)
    THEN Deny("completeTask", u, id, 404)
    ELSE /\ tasks' = [tasks EXCEPT
                        ![id] = completeTaskRow(@, u, SessionUsername(u))]
         /\ Respond("completeTask", u, id, 200)
         /\ UNCHANGED <<users, devices, consumables, serials, now, inflight, page>>

\* DELETE /api/tasks/:id
DeleteTask(u, id) ==
    IF ~isAuthenticated(u) THEN Deny("deleteTask", u, id, 401)
    ELSE IF id \notin DOMAIN tasks THEN Deny("deleteTask", u, id, 404)
    ELSE IF NotOwned(u, getTask(id).deviceId) THEN Deny("deleteTask", u, id, 404)
    ELSE /\ tasks' = DeleteWhere(tasks, {id})
         /\ Respond("deleteTask", u, id, 204)
         /\ UNCHANGED <<users, devices, consumables, serials, now, inflight, page>>

\* ----------------------------------------------------------- environment
\* The wall clock advances between requests.
Tick ==
    /\ now < MaxNow
    /\ now' = now + 1
    /\ res' = NoResponse
    /\ UNCHANGED <<store, serials, inflight, page>>

\* A user's stored username is changed (usernames stay unique).
RenameUser(u, n) ==
    /\ \A v \in Users : users[v] # n
    /\ users' = [users EXCEPT ![u] = n]
    /\ res' = NoResponse
    /\ UNCHANGED <<devices, consumables, tasks, serials, now, inflight, page>>

\* ------------------------------------------- handlers, await by await
\* The same handlers with other requests running between their awaits.  A
\* step that sends no response leaves res empty.
Request(op, u, id, pc) ==
    [Idle EXCEPT !.op = op, !.user = u, !.id = id, !.pc = pc,
                 !.name = SessionUsername(u)]
Suspend(s, r) ==
    /\ inflight' = [inflight EXCEPT ![s] = r]
    /\ res' = NoResponse
Finish(s, status) ==
    /\ inflight' = [inflight EXCEPT ![s] = Idle]
    /\ Respond(inflight[s].op, inflight[s].user, inflight[s].id, status)
At(s, op, pc) == inflight[s].op = op /\ inflight[s].pc = pc

\* DELETE /api/devices/:id up to `await storage.deleteDevice(id)`.
DeleteDeviceBegin(s, u, id) ==
    /\ inflight[s] = Idle
    /\ IF ~isAuthenticated(u) THEN Deny("deleteDevice", u, id, 401)
       ELSE IF NotOwned(u, id) THEN Deny("deleteDevice", u, id, 404)
       ELSE /\ Suspend(s, Request("deleteDevice", u, id, "consumables"))
            /\ UNCHANGED <<store, serials, now, page>>

\* storage.deleteDevice: await db.delete(consumables)...
DeleteDeviceConsumables(s) ==
    /\ At(s, "deleteDevice", "consumables")
    /\ consumables' = deleteDeviceConsumables(inflight[s].id)
    /\ Suspend(s, [inflight[s] EXCEPT
                     !.pc = "tasks",
                     !.removed = @ + Cardinality(getConsumables(inflight[s].id))])
    /\ UNCHANGED <<users, devices, tasks, serials, now, page>>

\* ... await db.delete(maintenanceTasks)...
DeleteDeviceTasks(s) ==
    /\ At(s, "deleteDevice", "tasks")
    /\ tasks' = deleteDeviceTasks(inflight[s].id)
    /\ Suspend(s, [inflight[s] EXCEPT
                     !.pc = "device",
                     !.removed = @ + Cardinality(getTasks(inflight[s].id))])
    /\ UNCHANGED <<users, devices, consumables, serials, now, page>>

\* ... await db.delete(devices); res.sendStatus(204).
DeleteDeviceRow(s) ==
    /\ At(s, "deleteDevice", "device")
    /\ devices' = deleteDeviceRow(inflight[s].id)
    /\ Finish(s, 204)
    /\ UNCHANGED <<users, consumables, tasks, serials, now, page>>

\* The statement the cascade is waiting on is rejected by the database: the
\* handler has no try/catch and no transaction, the error ends the request.
DeleteDeviceFails(s) ==
    /\ inflight[s].op = "deleteDevice"
    /\ Finish(s, 500)
    /\ UNCHANGED <<store, serials, now, page>>

\* POST /api/devices/:id/consumables up to `await storage.createConsumable`.
CreateConsumableBegin(s, u, id) ==
    /\ inflight[s] = Idle
    /\ IF ~isAuthenticated(u) THEN Deny("createConsumable", u, id, 401)
       ELSE IF NotOwned(u, id) THEN Deny("createConsumable", u, id, 404)
       ELSE /\ Suspend(s, Request("createConsumable", u, id, "insert"))
            /\ UNCHANGED <<store, serials, now, page>>

CreateConsumableInsert(s, body) ==
    /\ At(s, "createConsumable", "insert")
    /\ nextConsumableId <= MaxConsumables
    /\ consumables' =
           InsertRow(consumables, nextConsumableId,
                     createConsumableRow(
                         Spread(body, [deviceId |-> inflight[s].id])))
    /\ nextConsumableId' = nextConsumableId + 1
    /\ Finish(s, 201)
    /\ UNCHANGED <<users, devices, tasks, nextDeviceId, nextTaskId, now, page>>

\* POST /api/devices/:id/tasks up to `await storage.createTask`.
CreateTaskBegin(s, u, id) ==
    /\ inflight[s] = Idle
    /\ IF ~isAuthenticated(u) THEN Deny("createTask", u, id, 401)
       ELSE IF NotOwned(u, id) THEN Deny("createTask", u, id, 404)
       ELSE /\ Suspend(s, Request("createTask", u, id, "insert"))
            /\ UNCHANGED <<store, serials, now, page>>

CreateTaskInsert(s, body) ==
    /\ At(s, "createTask", "insert")
    /\ nextTaskId <= MaxTasks
    /\ tasks' =
           InsertRow(tasks, nextTaskId,
                     createTaskRow(Spread(body,
                         [deviceId |-> inflight[s].id, lastCompleted |-> Null,
                          isCompleted |-> FALSE])))
    /\ nextTaskId' = nextTaskId + 1
    /\ Finish(s, 201)
    /\ UNCHANGED <<users, devices, consumables,
                   nextDeviceId, nextConsumableId, now, page>>

\* PUT /api/tasks/:id and POST /api/tasks/:id/complete up to
\* `await storage.getDevice(task.deviceId)`: the task has been read.
TaskWriteBegin(s, op, u, id) ==
    /\ inflight[s] = Idle
    /\ IF ~isAuthenticated(u) THEN Deny(op, u, id, 401)
       ELSE IF id \notin DOMAIN tasks THEN Deny(op, u, id, 404)
       ELSE /\ Suspend(s, [Request(op, u, id, "device") EXCEPT
                             !.dev = getTask(id).deviceId])
            /\ UNCHANGED <<store, serials, now, page>>

\* The device has been read: 404, or the storage call builds its UPDATE
\* (completeTask takes new Date() here) and awaits the database.
TaskWriteCheck(s, op) ==
    /\ At(s, op, "device")
    /\ IF NotOwned(inflight[s].user, inflight[s].dev)
       THEN Finish(s, 404)
       ELSE Suspend(s, [inflight[s] EXCEPT !.pc = "write", !.ts = now])
    /\ UNCHANGED <<store, serials, now, page>>

UpdateTaskBegin(s, u, id) == TaskWriteBegin(s, "updateTask", u, id)
UpdateTaskCheck(s) == TaskWriteCheck(s, "updateTask")
CompleteTaskBegin(s, u, id) == TaskWriteBegin(s, "completeTask", u, id)
CompleteTaskCheck(s) == TaskWriteCheck(s, "completeTask")

\* UPDATE ... WHERE id = :id RETURNING: the row if it is still there, no
\* row otherwise; res.json(updated) answers 200 in both cases.
UpdateTaskWrite(s, body) ==
    /\ At(s, "updateTask", "write")
    /\ tasks' = [id \in DOMAIN tasks |->
                    IF id = inflight[s].id
                    THEN updateTaskRow(tasks[id], body) ELSE tasks[id]]
    /\ Finish(s, 200)
    /\ UNCHANGED <<users, devices, consumables, serials, now, page>>

CompleteTaskWrite(s) ==
    /\ At(s, "completeTask", "write")
    /\ tasks' = [id \in DOMAIN tasks |->
                    IF id = inflight[s].id
                    THEN completeTaskAt(tasks[id], inflight[s].ts,
                                        inflight[s].user, inflight[s].name)
                    ELSE tasks[id]]
    /\ Finish(s, 200)
    /\ UNCHANGED <<users, devices, consumables, serials, now, page>>

\* GET /api/tasks up to the first `await storage.getTasks(device.id)`: the
\* devices of the user have been read.
ListTasksBegin(s, u) ==
    /\ inflight[s] = Idle
    /\ IF ~isAuthenticated(u) THEN Deny("listTasks", u, 0, 401)
       ELSE IF getDevices(u) = {}
       THEN /\ RespondList("listTasks", u, 0, 200, <<>>)
            /\ UNCHANGED <<store, serials, now, inflight, page>>
       ELSE /\ Suspend(s, [Request("listTasks", u, 0, "tasks") EXCEPT
                             !.todo = Rows(getDevices(u))])
            /\ UNCHANGED <<store, serials, now, page>>

\* One turn of the loop: the tasks of the next device are appended; after
\* the last device res.json(allTasks).
ListTasksRead(s) ==
    /\ At(s, "listTasks", "tasks")
    /\ LET allTasks == inflight[s].acc \o Rows(getTasks(Head(inflight[s].todo)))
       IN  IF Len(inflight[s].todo) = 1
           THEN /\ inflight' = [inflight EXCEPT ![s] = Idle]
                /\ RespondList("listTasks", inflight[s].user, 0, 200, allTasks)
           ELSE Suspend(s, [inflight[s] EXCEPT
                              !.todo = Tail(@), !.acc = allTasks])
    /\ UNCHANGED <<store, serials, now, page>>

\* -------------------------------------------------------- specification
\* Spec: every mutating route, at a fixed instant and with fixed usernames.
Init ==
    /\ users = [u \in Users |-> IF u = 1 THEN "ann" ELSE "bob"]
    /\ devices = NoRows
    /\ consumables = NoRows
    /\ tasks = NoRows
    /\ nextDeviceId = 1
    /\ nextConsumableId = 1
    /\ nextTaskId = 1
    /\ now = 0
    /\ res = NoResponse
    /\ inflight = [s \in Slots |-> Idle]
    /\ page = NoPage

Next ==
    \/ \E u \in Principals, body \in DeviceCreateBodies : CreateDevice(u, body)
    \/ \E u \in Principals, id \in DeviceIds, body \in DeviceUpdateBodies :
          UpdateDevice(u, id, body)
    \/ \E u \in Principals, id \in DeviceIds : DeleteDevice(u, id)
    \/ \E u \in Principals, id \in DeviceIds, body \in ConsumableCreateBodies :
          CreateConsumable(u, id, body)
    \/ \E u \in Principals, id \in ConsumableIds,
          body \in ConsumableUpdateBodies : UpdateConsumable(u, id, body)
    \/ \E u \in Principals, id \in ConsumableIds : DeleteConsumable(u, id)
    \/ \E u \in Principals, id \in DeviceIds, body \in TaskCreateBodies :
          CreateTask(u, id, body)
    \/ \E u \in Principals, id \in TaskIds, body \in TaskUpdateBodies :
          UpdateTask(u, id, body)
    \/ \E u \in Principals, id \in TaskIds : CompleteTask(u, id)
    \/ \E u \in Principals, id \in TaskIds : DeleteTask(u, id)

Spec == Init /\ [][Next]_vars

\* The task lifecycle: the task routes with bodies that carry the completion
\* columns, while the clock advances and stored usernames change.
NextTasks ==
    \/ \E u \in Principals : CreateDevice(u, [name |-> "a"])
    \/ \E u \in Principals, id \in DeviceIds, body \in TaskCreateBodiesFull :
          CreateTask(u, id, body)
    \/ \E u \in Principals, id \in TaskIds, body \in TaskUpdateBodiesFull :
          UpdateTask(u, id, body)
    \/ \E u \in Principals, id \in TaskIds : CompleteTask(u, id)
    \/ \E u \in Principals, id \in TaskIds : DeleteTask(u, id)
    \/ Tick
    \/ \E u \in Users, n \in Usernames : RenameUser(u, n)

SpecTasks == Init /\ [][NextTasks]_vars

\* The cascade of deleteDevice, statement by statement, among requests that
\* create consumables and tasks.
NextCascade ==
    \/ \E u \in Users : CreateDevice(u, [name |-> "a"])
    \/ \E s \in Slots, u \in Principals, id \in DeviceIds :
          DeleteDeviceBegin(s, u, id)
    \/ \E s \in Slots : DeleteDeviceConsumables(s)
    \/ \E s \in Slots : DeleteDeviceTasks(s)
    \/ \E s \in Slots : DeleteDeviceRow(s)
    \/ \E s \in Slots : DeleteDeviceFails(s)
    \/ \E s \in Slots, u \in Principals, id \in DeviceIds :
          CreateConsumableBegin(s, u, id)
    \/ \E s \in Slots : CreateConsumableInsert(s, [name |-> "a"])
    \/ \E s \in Slots, u \in Principals, id \in DeviceIds :
          CreateTaskBegin(s, u, id)
    \/ \E s \in Slots : CreateTaskInsert(s, [intervalDays |-> 1])

SpecCascade == Init /\ [][NextCascade]_vars

\* Updates and completions of a task, await by await, among deletions of
\* the task, while the clock advances and usernames change.
NextRace ==
    \/ \E u \in Users : CreateDevice(u, [name |-> "a"])
    \/ \E u \in Users, id \in DeviceIds : CreateTask(u, id, [intervalDays |-> 1])
    \/ \E s \in Slots, u \in Principals, id \in TaskIds :
          UpdateTaskBegin(s, u, id)
    \/ \E s \in Slots : UpdateTaskCheck(s)
    \/ \E s \in Slots : UpdateTaskWrite(s, [intervalDays |-> 1])
    \/ \E s \in Slots, u \in Principals, id \in TaskIds :
          CompleteTaskBegin(s, u, id)
    \/ \E s \in Slots : CompleteTaskCheck(s)
    \/ \E s \in Slots : CompleteTaskWrite(s)
    \/ \E u \in Users, id \in TaskIds : DeleteTask(u, id)
    \/ Tick
    \/ \E u \in Users, n \in Usernames : RenameUser(u, n)

SpecRace == Init /\ [][NextRace]_vars

\* GET /api/tasks, read by read, among requests that create and delete
\* devices and tasks.
NextList ==
    \/ \E u \in Users : CreateDevice(u, [name |-> "a"])
    \/ \E u \in Users, id \in DeviceIds : DeleteDevice(u, id)
    \/ \E u \in Users, id \in DeviceIds : CreateTask(u, id, [intervalDays |-> 1])
    \/ \E u \in Users, id \in TaskIds : DeleteTask(u, id)
    \/ \E s \in Slots, u \in Principals : ListTasksBegin(s, u)
    \/ \E s \in Slots : ListTasksRead(s)

SpecList == Init /\ [][NextList]_vars

\* ================================================================ claims
DeviceOps == {"updateDevice", "deleteDevice", "createConsumable", "createTask"}
ConsumableOps == {"updateConsumable", "deleteConsumable"}
TaskOps == {"updateTask", "completeTask", "deleteTask"}
Denied == {403, 404}
Authorized == {200, 201, 204}

\* The device a request on :id is checked against: the device itself, or
\* the parent device of the consumable or task.
HasTarget(op, id) ==
    \/ op \in DeviceOps /\ id \in DOMAIN devices
    \/ op \in ConsumableOps /\ id \in DOMAIN consumables
       /\ consumables[id].deviceId \in DOMAIN devices
    \/ op \in TaskOps /\ id \in DOMAIN tasks
       /\ tasks[id].deviceId \in DOMAIN devices
TargetDevice(op, id) ==
    IF op \in DeviceOps THEN id
    ELSE IF op \in ConsumableOps THEN consumables[id].deviceId
    ELSE tasks[id].deviceId

\* C1: a mutating request by an authenticated user on a device, consumable
\* or task whose device belongs to another user is denied and changes no
\* stored device, consumable or task; the same request by the owner is
\* authorized.
C1_OwnershipEnforced ==
    [][\A a \in Users, id \in DeviceIds \cup ConsumableIds \cup TaskIds :
          (res'.user = a /\ res'.id = id /\ HasTarget(res'.op, id)) =>
              IF devices[TargetDevice(res'.op, id)].userId # a
              THEN /\ res'.status \in Denied
                   /\ UNCHANGED <<devices, consumables, tasks>>
              ELSE res'.status \in Authorized]_vars

\* A user was refused on a task that exists under another user's device.
C1_Witness ==
    /\ res.op = "updateTask" /\ res.status = 404 /\ res.user \in Users
    /\ res.id \in DOMAIN tasks
    /\ tasks[res.id].deviceId \in DOMAIN devices
    /\ devices[tasks[res.id].deviceId].userId \in Users \ {res.user}

\* C6: the owning user of a stored device never changes.
C6_OwnerNeverReassigned ==
    [][\A d \in DOMAIN devices \cap DOMAIN devices' :
          devices'[d].userId = devices[d].userId]_vars

\* C7: the deviceId of a stored task or consumable never changes.
C7_DeviceIdImmutable ==
    [][/\ \A t \in DOMAIN tasks \cap DOMAIN tasks' :
             tasks'[t].deviceId = tasks[t].deviceId
       /\ \A c \in DOMAIN consumables \cap DOMAIN consumables' :
             consumables'[c].deviceId = consumables[c].deviceId]_vars

\* C8: every stored task has intervalDays >= 1.
C8_IntervalAtLeastOne == \A t \in DOMAIN tasks : tasks[t].intervalDays >= 1

\* C9: a task create request with intervalDays = 0 on an owned device is
\* rejected with a validation error and inserts nothing.
C9_ZeroIntervalRejected ==
    [][\A u \in Users, d \in DeviceIds :
          (~NotOwned(u, d) /\ CreateTask(u, d, [intervalDays |-> 0])) =>
              (res'.status = 400 /\ UNCHANGED tasks)]_vars

C2_CompletedIffLastCompleted ==
    \A t \in DOMAIN tasks :
        (tasks[t].isCompleted = TRUE) <=> (tasks[t].lastCompleted # Null)

CompletionColumns(row) ==
    <<row.lastCompleted, row.isCompleted, row.completedBy,
      row.completedByUsername>>

\* C3: PUT /api/tasks/:id leaves lastCompleted, isCompleted, completedBy
\* and completedByUsername of every task as they were; only the complete
\* operation changes them.
C3_UpdateKeepsCompletion ==
    [][\A t \in DOMAIN tasks \cap DOMAIN tasks' :
          CompletionColumns(tasks'[t]) # CompletionColumns(tasks[t])
              => res'.op = "completeTask"]_vars

\* C4: completedBy and completedByUsername of a stored task are both null
\* or both set, and no create or update request leaves them set on a task
\* where they were not.
C4_CompletedByPaired ==
    /\ [](\A t \in DOMAIN tasks :
             (tasks[t].completedBy = Null)
                 <=> (tasks[t].completedByUsername = NullText))
    /\ [][res'.op \in {"createTask", "updateTask"} =>
             \A t \in DOMAIN tasks' :
                 (tasks'[t].completedBy # Null
                  \/ tasks'[t].completedByUsername # NullText)
                     => /\ t \in DOMAIN tasks
                        /\ tasks[t].completedBy = tasks'[t].completedBy
                        /\ tasks[t].completedByUsername =
                               tasks'[t].completedByUsername]_vars

\* C5: an authorized complete by user u, whose session username is n, sets
\* lastCompleted to the current instant, isCompleted to TRUE, completedBy
\* to u and completedByUsername to n; when a stored username changes right
\* after, reading the task still returns completedByUsername = n.
C5_CompleteSnapshotsUsername ==
    [][\A u \in Users, id \in TaskIds :
          /\ (res'.op = "completeTask" /\ res'.status = 200
              /\ res'.user = u /\ res'.id = id) =>
                 /\ id \in DOMAIN tasks'
                 /\ getTask(id)'.lastCompleted = now'
                 /\ getTask(id)'.isCompleted = TRUE
                 /\ getTask(id)'.completedBy = u
                 /\ getTask(id)'.completedByUsername = SessionUsername(u)
          /\ (res.op = "completeTask" /\ res.status = 200
              /\ res.user = u /\ res.id = id /\ users' # users) =>
                 /\ getTask(id)'.completedBy = u
                 /\ getTask(id)'.completedByUsername = SessionUsername(u)]_vars

\* A task completed by a user who has since been renamed.
C5_Witness ==
    /\ res = NoResponse
    /\ \E id \in DOMAIN tasks, u \in Users :
          /\ tasks[id].completedBy = u
          /\ tasks[id].lastCompleted = now
          /\ tasks[id].isCompleted = TRUE
          /\ tasks[id].completedByUsername \in {"ann", "bob"}
          /\ tasks[id].completedByUsername # users[u]

\* The target of a request on :id is missing: the device, the consumable
\* or the task itself.
TargetMissing(op, id) ==
    \/ op \in DeviceOps /\ id \notin DOMAIN devices
    \/ op \in ConsumableOps /\ id \notin DOMAIN consumables
    \/ op \in TaskOps /\ id \notin DOMAIN tasks

\* The target exists and its parent device does not (it has no owner).
ParentMissing(op, id) ==
    \/ op \in ConsumableOps /\ id \in DOMAIN consumables
       /\ consumables[id].deviceId \notin DOMAIN devices
    \/ op \in TaskOps /\ id \in DOMAIN tasks
       /\ tasks[id].deviceId \notin DOMAIN devices

\* The target exists, under a device that belongs to a user other than u.
OwnedByOther(u, op, id) ==
    HasTarget(op, id) /\ devices[TargetDevice(op, id)].userId # u

C17_ConsumableNotFoundVsForbidden ==
    [][\A u \in Users, id \in ConsumableIds :
          (res'.user = u /\ res'.id = id /\ res'.op \in ConsumableOps) =>
              /\ res'.status = 404 <=> TargetMissing(res'.op, id)
              /\ res'.status = 403 <=> OwnedByOther(u, res'.op, id)
              /\ res'.status \in Denied =>
                     UNCHANGED <<devices, consumables, tasks>>]_vars

\* C18: update, complete and delete of a task or consumable whose parent
\* device does not exist are denied for every principal and change nothing.
C18_OrphanFailsClosed ==
    [][\A u \in Principals, id \in ConsumableIds \cup TaskIds :
          (res'.user = u /\ res'.id = id /\ ParentMissing(res'.op, id)) =>
              /\ res'.status \in {401, 403, 404}
              /\ UNCHANGED <<devices, consumables, tasks>>]_vars

\* A user was refused on a task whose parent device is not stored.
C18_Witness ==
    /\ res.op = "completeTask" /\ res.status = 404 /\ res.user \in Users
    /\ res.id \in DOMAIN tasks
    /\ tasks[res.id].deviceId \notin DOMAIN devices

C11_CascadeAtomic ==
    [][\A s \in Slots :
          (inflight[s].op = "deleteDevice"
           /\ inflight'[s].removed > inflight[s].removed) =>
              ~(/\ inflight[s].id \in DOMAIN devices'
                /\ getConsumables(inflight[s].id)' \cup getTasks(inflight[s].id)' # {})]_vars

\* C12: a deleteDevice(d) that ends on a failed statement leaves the store as
\* it was before the operation or with d fully deleted.
C12_FailureLeavesNoPartialState ==
    [][\A s \in Slots :
          (inflight[s].op = "deleteDevice" /\ inflight'[s] = Idle
           /\ res'.status = 500) =>
              (inflight[s].removed = 0 \/ inflight[s].id \notin DOMAIN devices')]_vars

\* C13: every stored consumable and every stored task references a stored
\* device, whatever the interleaving of creates with a deleteDevice.
C13_NoOrphans ==
    /\ \A c \in DOMAIN consumables : consumables[c].deviceId \in DOMAIN devices
    /\ \A t \in DOMAIN tasks : tasks[t].deviceId \in DOMAIN devices

\* C14: a complete call whose write is applied answers 200 and leaves the
\* row with lastCompleted, completedBy and completedByUsername of that call,
\* whatever an earlier concurrent call wrote.
C14_LastCompleteWins ==
    [][\A s \in Slots :
          (inflight[s].op = "completeTask" /\ inflight[s].pc = "write"
           /\ inflight'[s] = Idle /\ inflight[s].id \in DOMAIN tasks) =>
              /\ res'.status = 200
              /\ tasks'[inflight[s].id].lastCompleted = inflight[s].ts
              /\ tasks'[inflight[s].id].completedBy = inflight[s].user
              /\ tasks'[inflight[s].id].completedByUsername = inflight[s].name]_vars

\* Of two concurrent complete calls on one task the first has been applied
\* and answered, and the second is about to write another Date and username.
C14_Witness ==
    \E s \in Slots :
        /\ inflight[s].op = "completeTask" /\ inflight[s].pc = "write"
        /\ res.op = "completeTask" /\ res.status = 200
        /\ res.id = inflight[s].id /\ res.id \in DOMAIN tasks
        /\ tasks[res.id].completedBy = res.user
        /\ tasks[res.id].lastCompleted # Null
        /\ tasks[res.id].lastCompleted # inflight[s].ts
        /\ tasks[res.id].completedByUsername # inflight[s].name

\* The tasks of the devices of u, device by device.
RECURSIVE Concat(_)
Concat(deviceRows) ==
    IF deviceRows = <<>> THEN <<>>
    ELSE Rows(getTasks(Head(deviceRows))) \o Concat(Tail(deviceRows))
ListForUser(u) == Concat(Rows(getDevices(u)))

\* C15: the answer of GET /api/tasks is the concatenation of the task lists
\* of the user's devices, also when other requests ran between its reads.
C15_ListEqualsConcatenation ==
    [][\A u \in Users :
          (res'.op = "listTasks" /\ res'.user = u /\ res'.status = 200) =>
              res'.list = ListForUser(u)']_vars

\* C20: an update or complete that answers 200 has modified the task row,
\* also when the task was deleted between its ownership check and its write.
C20_NoSilentSuccess ==
    [][\A s \in Slots :
          (inflight[s].op \in {"updateTask", "completeTask"}
           /\ inflight[s].pc = "write" /\ inflight'[s] = Idle
           /\ res'.status = 200) =>
              inflight[s].id \in DOMAIN tasks]_vars

\* ------------------------------------------------- the device dates
\* Bodies of the device form: the two dates as the client sends them.
DateValues == {1, 2}
DeviceCreateBodiesDates ==
    {[name |-> "a"]}
    \cup {[name |-> "a", purchaseDate |-> v] : v \in DateValues}
    \cup {[name |-> "a", warrantyExpirationDate |-> v] : v \in DateValues}
DeviceUpdateBodiesDates ==
    {[name |-> "b"]}
    \cup {[purchaseDate |-> v] : v \in DateValues}
    \cup {[warrantyExpirationDate |-> v] : v \in DateValues}

NextDevices ==
    \/ \E u \in Principals, body \in DeviceCreateBodiesDates :
          CreateDevice(u, body)
    \/ \E u \in Principals, id \in DeviceIds, body \in DeviceUpdateBodiesDates :
          UpdateDevice(u, id, body)
    \/ \E u \in Principals, id \in DeviceIds : DeleteDevice(u, id)

SpecDevices == Init /\ [][NextDevices]_vars

\* The task has been completed and not reset.
Completed(row) == row.lastCompleted # Null /\ row.isCompleted = TRUE

\* C25: a task that is Completed stays Completed for as long as it is
\* stored: no create, update or complete request returns it to
\* NeverCompleted.
C25_LifecycleOneWay ==
    [][\A t \in DOMAIN tasks \cap DOMAIN tasks' :
          Completed(tasks[t]) => Completed(tasks'[t])]_vars

\* C26: no applied complete call lowers the stored lastCompleted of its
\* task, whatever the interleaving of the complete calls.
C26_LastCompletedNeverDecreases ==
    [][\A s \in Slots :
          (inflight[s].op = "completeTask" /\ inflight[s].pc = "write"
           /\ inflight'[s] = Idle /\ inflight[s].id \in DOMAIN tasks
           /\ tasks[inflight[s].id].lastCompleted # Null) =>
              tasks'[inflight[s].id].lastCompleted
                  >= tasks[inflight[s].id].lastCompleted]_vars

\* C27: a created device belongs to the caller and a created consumable or
\* task to the device of the path, which the caller owns, whatever userId
\* or deviceId the body carries.
C27_CreationIgnoresBodyOwner ==
    [][\A u \in Users :
          /\ (res'.op = "createDevice" /\ res'.user = u /\ res'.status = 201)
                 => devices'[nextDeviceId].userId = u
          /\ (res'.op = "createConsumable" /\ res'.user = u
              /\ res'.status = 201)
                 => /\ consumables'[nextConsumableId].deviceId = res'.id
                    /\ res'.id \in DOMAIN devices
                    /\ devices[res'.id].userId = u
          /\ (res'.op = "createTask" /\ res'.user = u /\ res'.status = 201)
                 => /\ tasks'[nextTaskId].deviceId = res'.id
                    /\ res'.id \in DOMAIN devices
                    /\ devices[res'.id].userId = u]_vars

\* A consumable was created under the device of the path, owned by the
\* caller, while another device exists that a body could have named.
C27_Witness ==
    /\ res.op = "createConsumable" /\ res.status = 201 /\ res.user \in Users
    /\ nextConsumableId - 1 \in DOMAIN consumables
    /\ consumables[nextConsumableId - 1].deviceId = res.id
    /\ res.id \in DOMAIN devices /\ devices[res.id].userId = res.user
    /\ \E d \in DOMAIN devices : d # res.id /\ devices[d].userId # res.user

\* C29: PUT /api/devices/:id leaves every column the body does not carry,
\* purchaseDate and warrantyExpirationDate among them, as it was.
C29_DeviceUpdatePartial ==
    [][\A u \in Users, id \in DeviceIds, body \in DeviceUpdateBodiesDates :
          (UpdateDevice(u, id, body) /\ res'.status = 200) =>
              \A k \in DOMAIN devices[id] \ DOMAIN body :
                  devices'[id][k] = devices[id][k]]_vars

\* ------------------------------------------------------- the due dates
\* date-fns on instants counted in days.
addDays(date, amount) == date + amount
isBefore(date, dateToCompare) == date < dateToCompare
isAfter(date, dateToCompare) == date > dateToCompare

\* addDays(new Date(), 7): the horizon of the upcoming list.
OneWeek == 7

Elements(list) == {list[i] : i \in 1..Len(list)}

\* HomePage: the filter of dueTasks.
inDueTasksInclusive(task, today) ==
    IF task.lastCompleted = Null THEN TRUE
    ELSE LET nextDueDate == addDays(task.lastCompleted, task.intervalDays)
         IN  ~isAfter(nextDueDate, today)
inDueTasks(task, today) ==
    IF task.lastCompleted = Null THEN TRUE
    ELSE LET nextDueDate == addDays(task.lastCompleted, task.intervalDays)
         IN  isBefore(nextDueDate, today)

\* HomePage: the filter of upcomingTasks.
inUpcomingTasksNoNullTest(task, today) ==
    LET nextDueDate == addDays(task.lastCompleted, task.intervalDays)
        oneWeekFromNow == addDays(today, OneWeek)
    IN  isAfter(nextDueDate, today) /\ isBefore(nextDueDate, oneWeekFromNow)
inUpcomingTasksNoLowerBound(task, today) ==
    IF task.lastCompleted = Null THEN FALSE
    ELSE LET nextDueDate == addDays(task.lastCompleted, task.intervalDays)
             oneWeekFromNow == addDays(today, OneWeek)
         IN  isBefore(nextDueDate, oneWeekFromNow)
inUpcomingTasks(task, today) ==
    IF task.lastCompleted = Null THEN FALSE
    ELSE LET nextDueDate == addDays(task.lastCompleted, task.intervalDays)
             oneWeekFromNow == addDays(today, OneWeek)
         IN  isAfter(nextDueDate, today) /\ isBefore(nextDueDate, oneWeekFromNow)

\* DevicesPage: isOverdue of a task that has been completed.
isOverdue(task, today) ==
    LET nextDueDate == addDays(task.lastCompleted, task.intervalDays)
    IN  today > nextDueDate

\* The dashboard: GET /api/tasks, then the two filters at the client's
\* new Date().
HomePage(u) ==
    /\ isAuthenticated(u)
    /\ LET allTasks == ListForUser(u)
       IN  /\ page' = [page EXCEPT
                         !.dueTasks = {t \in Elements(allTasks) :
                                          inDueTasks(tasks[t], now)},
                         !.upcomingTasks = {t \in Elements(allTasks) :
                                          inUpcomingTasks(tasks[t], now)}]
           /\ RespondList("listTasks", u, 0, 200, allTasks)
    /\ UNCHANGED <<store, serials, now, inflight>>

\* The devices page: GET /api/devices/:id/tasks, then isOverdue per task.
\* For a task never completed nextDueDate is one new Date() and isOverdue
\* compares a second new Date() with it: true only when the clock moved
\* between the two reads.
DevicesPage(u, id) ==
    /\ isAuthenticated(u)
    /\ IF NotOwned(u, id) THEN Deny("listDeviceTasks", u, id, 404)
       ELSE /\ \E moved \in SUBSET {t \in getTasks(id) :
                                       tasks[t].lastCompleted = Null} :
                   page' = [page EXCEPT
                              !.isOverdue =
                                  moved \cup
                                  {t \in getTasks(id) :
                                      /\ tasks[t].lastCompleted # Null
                                      /\ isOverdue(tasks[t], now)}]
            /\ RespondList("listDeviceTasks", u, id, 200, Rows(getTasks(id)))
            /\ UNCHANGED <<store, serials, now, inflight>>

\* A day passes.
Elapse ==
    /\ now < MaxDay
    /\ now' = now + 1
    /\ res' = NoResponse
    /\ UNCHANGED <<store, serials, inflight, page>>

\* intervalDays a client sends when it creates a task.
DueIntervals == {-1, 1, 30}

\* Tasks are created and completed over the days, and the two pages are
\* rendered.
NextDue ==
    \/ \E u \in Users : CreateDevice(u, [name |-> "a"])
    \/ \E u \in Users, id \in DeviceIds, i \in DueIntervals :
          CreateTask(u, id, [intervalDays |-> i])
    \/ \E u \in Users, id \in TaskIds : CompleteTask(u, id)
    \/ \E u \in Users : HomePage(u)
    \/ \E u \in Users, id \in DeviceIds : DevicesPage(u, id)
    \/ Elapse

SpecDue == Init /\ [][NextDue]_vars

\* The dashboard has just been rendered: its lists are those of the
\* stored tasks at the present instant.
DashboardShown == res.op = "listTasks" /\ res.status = 200
DevicesPageShown == res.op = "listDeviceTasks" /\ res.status = 200

nextDue(task) == task.lastCompleted + task.intervalDays

\* C21: a task with lastCompleted = null is in the due-now list and not in
\* the upcoming list, at every instant.
C21_NeverCompletedIsOverdue ==
    DashboardShown =>
        \A t \in Elements(res.list) :
            tasks[t].lastCompleted = Null =>
                t \in page.dueTasks /\ t \notin page.upcomingTasks

\* A never completed task is shown as due now, days after its creation.
C21_Witness ==
    /\ DashboardShown /\ now > 0
    /\ \E t \in Elements(res.list) :
          /\ tasks[t].lastCompleted = Null
          /\ t \in page.dueTasks /\ t \notin page.upcomingTasks

\* C22: the due-now list and the upcoming list of the dashboard are
\* disjoint: no task is overdue and due-soon at once.
C22_OverdueAndDueSoonDisjoint ==
    DashboardShown => page.dueTasks \cap page.upcomingTasks = {}

\* The dashboard shows a completed task in one list and not in the other.
C22_Witness ==
    /\ DashboardShown
    /\ \E t \in page.upcomingTasks :
          tasks[t].lastCompleted # Null /\ t \notin page.dueTasks

\* C23: a completed task is in the upcoming list exactly when
\* now <= nextDue < now + 7 days; nextDue = now is due-soon.
C23_DueSoonWindow ==
    DashboardShown =>
        \A t \in Elements(res.list) :
            tasks[t].lastCompleted # Null =>
                (t \in page.upcomingTasks <=>
                    (now <= nextDue(tasks[t])
                     /\ nextDue(tasks[t]) < now + OneWeek))

\* C24: for a completed task nextDue = lastCompleted + intervalDays and the
\* task is overdue exactly when nextDue < now, on the dashboard and on the
\* devices page; with intervalDays = 30 and lastCompleted = day 0 it is
\* overdue at day 35, and due-soon and not overdue at day 24.
C24_OverdueArithmetic ==
    /\ DashboardShown =>
          \A t \in Elements(res.list) :
              tasks[t].lastCompleted # Null =>
                  /\ t \in page.dueTasks <=> nextDue(tasks[t]) < now
                  /\ (tasks[t].lastCompleted = 0 /\ tasks[t].intervalDays = 30
                      /\ now = 35) => t \in page.dueTasks
                  /\ (tasks[t].lastCompleted = 0 /\ tasks[t].intervalDays = 30
                      /\ now = 24) =>
                         t \in page.upcomingTasks /\ t \notin page.dueTasks
    /\ DevicesPageShown =>
          \A t \in Elements(res.list) :
              tasks[t].lastCompleted # Null =>
                  (t \in page.isOverdue <=> nextDue(tasks[t]) < now)

\* The task completed at day 0 with an interval of 30 days is shown overdue
\* at day 35.
C24_Witness ==
    /\ DashboardShown /\ now = 35
    /\ \E t \in Elements(res.list) :
          /\ tasks[t].lastCompleted = 0 /\ tasks[t].intervalDays = 30
          /\ t \in page.dueTasks

\* C30: a task completed at instant t and not changed since is not in the
\* due-now list at t nor at any instant up to t + intervalDays.
C30_CompleteClearsOverdue ==
    DashboardShown =>
        \A t \in Elements(res.list) :
            (/\ tasks[t].lastCompleted # Null
             /\ tasks[t].lastCompleted <= now
             /\ \/ now = tasks[t].lastCompleted
                \/ now <= nextDue(tasks[t])) =>
                t \notin page.dueTasks

\* ------------------------------------------------------ the read routes
\* GET /api/devices
GetDevices(u) ==
    IF ~isAuthenticated(u) THEN Deny("listDevices", u, 0, 401)
    ELSE /\ RespondList("listDevices", u, 0, 200, Rows(getDevices(u)))
         /\ UNCHANGED <<store, serials, now, inflight, page>>

\* GET /api/devices/:id/consumables
GetDeviceConsumables(u, id) ==
    IF ~isAuthenticated(u) THEN Deny("listDeviceConsumables", u, id, 401)
    ELSE IF NotOwned(u, id) THEN Deny("listDeviceConsumables", u, id, 404)
    ELSE /\ RespondList("listDeviceConsumables", u, id, 200,
                        Rows(getConsumables(id)))
         /\ UNCHANGED <<store, serials, now, inflight, page>>

\* storage.getAllConsumables: the consumables of each device of the user.
RECURSIVE getAllConsumablesOf(_)
getAllConsumablesOf(userDevices) ==
    IF userDevices = <<>> THEN <<>>
    ELSE Rows(getConsumables(Head(userDevices)))
             \o getAllConsumablesOf(Tail(userDevices))
getAllConsumables(userId) == getAllConsumablesOf(Rows(getDevices(userId)))

\* GET /api/consumables
GetAllConsumables(u) ==
    IF ~isAuthenticated(u) THEN Deny("listConsumables", u, 0, 401)
    ELSE /\ RespondList("listConsumables", u, 0, 200, getAllConsumables(u))
         /\ UNCHANGED <<store, serials, now, inflight, page>>

\* GET /api/devices/:id/tasks
GetDeviceTasks(u, id) ==
    IF ~isAuthenticated(u) THEN Deny("listDeviceTasks", u, id, 401)
    ELSE IF NotOwned(u, id) THEN Deny("listDeviceTasks", u, id, 404)
    ELSE /\ RespondList("listDeviceTasks", u, id, 200, Rows(getTasks(id)))
         /\ UNCHANGED <<store, serials, now, inflight, page>>

\* The five read routes, GET /api/tasks read by read, among requests that
\* create rows and update them with bodies that carry userId or deviceId.
NextReads ==
    \/ \E u \in Users : CreateDevice(u, [name |-> "a"])
    \/ \E u \in Users, id \in DeviceIds, v \in Users :
          UpdateDevice(u, id, [userId |-> v])
    \/ \E u \in Users, id \in DeviceIds :
          CreateConsumable(u, id, [name |-> "a"])
    \/ \E u \in Users, id \in ConsumableIds, d \in DeviceIds :
          UpdateConsumable(u, id, [deviceId |-> d])
    \/ \E u \in Users, id \in DeviceIds :
          CreateTask(u, id, [intervalDays |-> 1])
    \/ \E u \in Users, id \in TaskIds, d \in DeviceIds :
          UpdateTask(u, id, [deviceId |-> d])
    \/ \E u \in Principals : GetDevices(u)
    \/ \E u \in Principals, id \in DeviceIds : GetDeviceConsumables(u, id)
    \/ \E u \in Principals : GetAllConsumables(u)
    \/ \E u \in Principals, id \in DeviceIds : GetDeviceTasks(u, id)
    \/ \E s \in Slots, u \in Principals : ListTasksBegin(s, u)
    \/ \E s \in Slots : ListTasksRead(s)

SpecReads == Init /\ [][NextReads]_vars

\* The device is stored and belongs to u.
OwnedBy(u, deviceId) ==
    deviceId \in DOMAIN devices /\ devices[deviceId].userId = u

\* C28: a read route answers user u with devices of u only and with
\* consumables and tasks under devices of u only.
C28_ReadsScopedToOwner ==
    (res.status = 200 /\ res.user \in Users) =>
        /\ res.op = "listDevices" =>
              \A d \in Elements(res.list) : OwnedBy(res.user, d)
        /\ res.op \in {"listDeviceConsumables", "listConsumables"} =>
              \A c \in Elements(res.list) :
                  /\ c \in DOMAIN consumables
                  /\ OwnedBy(res.user, consumables[c].deviceId)
        /\ res.op \in {"listDeviceTasks", "listTasks"} =>
              \A t \in Elements(res.list) :
                  /\ t \in DOMAIN tasks
                  /\ OwnedBy(res.user, tasks[t].deviceId)

====
